---- MODULE Spec2Model ----
\* SMS one-time-code authentication of App-Servicios-Backend:
\* routes/auth.js (register, verify, cleanup), models/user.js and the /auth
\* rate limiter of index.js, as a state machine over the users collection.
\*
\* Strings are sequences of one-character strings.  Time is counted in ticks
\* of ten minutes.  A request is split where the handler awaits the store:
\* the synchronous code up to an await and the store operation that follows
\* the previous await form one step.
EXTENDS Integers, Sequences, FiniteSets, TLC

\* now: the server clock; users: the users collection; hits: the limiter's
\* memory store; reqs: the requests in progress; res: the response sent by the
\* last step (NoRes when it sent none); jwtSecret: process.env.JWT_SECRET is set.
\* History, read by the properties only: winFirst, winSeen (the first request
\* of a client's current window and the requests seen since), okCount (the
\* successful verifies of the code a phone's last register issued), lastOk
\* (the code last verified since that register), sweptAt (the time of the
\* last cleanup, while no register or verify has acted since).
\* nodeEnv: process.env.NODE_ENV; sent: the messages handed to the Twilio
\* client by sendSMS.
\* History: passedAt (the times of a client's last requests that the limiter
\* let through, recorded by WinSpec only).
\* services: the services collection; cache: the NodeCache of the /serv
\* router; made: the documents created so far, which numbers their _id;
\* clock: the server clock read by the /serv and /profile routers, in ticks
\* of 30 seconds; strictQuery: the strictQuery default of the installed
\* Mongoose (true in 6.x, false before and after); out: the response sent by
\* the last step of these routers.
VARIABLES now, users, hits, reqs, res, jwtSecret,
          winFirst, winSeen, okCount, lastOk, sweptAt, nodeEnv, sent, passedAt,
          services, cache, made, clock, strictQuery, out

vars == <<now, users, hits, reqs, res, jwtSecret,
          winFirst, winSeen, okCount, lastOk, sweptAt, nodeEnv, sent, passedAt,
          services, cache, made, clock, strictQuery, out>>

\* the variables of the services and profile routers and those of /auth
svcVars == <<services, cache, made, clock, strictQuery, out>>
authVars == <<now, users, hits, reqs, res, jwtSecret, winFirst, winSeen, okCount, lastOk,
              sweptAt, nodeEnv, sent, passedAt>>

\* ------------------------------------------------------------------ bounds
\* documents created in the specifications of the services router
MaxServices == 2

\* documents created in the specification of the cache
MaxCacheDocs == 1

\* last tick of the clock of the services router
MaxClock == 3

\* last tick of the clock in the specification of three windows
MaxWinTime == 12

\* last tick of the clock in the specification of concurrent requests
MaxConcTime == 2
\* last tick of the clock in the specification of sequential requests
MaxCodeTime == 3
\* last tick of the clock in the specification about the rate limiter
MaxTime == 6
\* requests one client sends within one window, in the specification about
\* the rate limiter and in the specifications about codes
MaxHits == 6
MaxCodeHits == 4

\* --------------------------------------------------------- program constants
\* 10 * 60 * 1000 ms, in ticks
CodigoTtl == 1
\* windowMs: 60 * 60 * 1000 ms, in ticks
windowMs == 6
\* max: 4
RateMax == 4
\* Math.floor(100000 + Math.random() * 900000)
CodigoBase == 100000
CodigoSpan == 900000
\* Joi.string().length(6)
CodigoLen == 6
\* expiresIn "7d", in ticks
JwtExpiresIn == 1008

\* new NodeCache({ stdTTL: 60 }): 60 seconds, in ticks of 30 seconds
stdTTL == 2

\* 30 * 24 * 60 * 60 * 1000 ms, in ticks of 30 seconds
CleanupAge == 86400

\* /^\+\d{8,15}$/
MinDigits == 8
MaxDigits == 15

\* ------------------------------------------------------------------- values
NoStr == << >>
NoDate == -1
NoId == -1

Digits == {"0", "1", "2", "3", "4", "5", "6", "7", "8", "9"}

DigitChar(d) ==
    CASE d = 0 -> "0" [] d = 1 -> "1" [] d = 2 -> "2" [] d = 3 -> "3"
      [] d = 4 -> "4" [] d = 5 -> "5" [] d = 6 -> "6" [] d = 7 -> "7"
      [] d = 8 -> "8" [] d = 9 -> "9"

RECURSIVE toString(_)
toString(n) ==
    IF n < 10 THEN <<DigitChar(n)>>
    ELSE Append(toString(n \div 10), DigitChar(n % 10))

\* the values floor(Math.random() * 900000) is drawn from in the model
RandomFloors == {0, CodigoSpan - 1}

\* the values floor(Math.random() * 900000) can take
Floors == 0..(CodigoSpan - 1)

\* floor(Math.random() * 1000000), unpadded
codigoAleatorioDesdeCero(f) == toString(f)

codigoAleatorio(f) == toString(CodigoBase + f)

codigoExpiraDe(t) == t + CodigoTtl

\* ------------------------------------------------------------------- inputs
PhoneA == <<"+", "3", "4", "6", "0", "0", "0", "0", "1">>
PhoneB == <<"+", "5", "4", "9", "1", "1", "2", "2", "3", "3", "4", "4", "5", "5", "6", "6">>
PhoneNoPlus == <<"3", "4", "6", "0", "0", "0", "0", "0", "1">>
PhoneShort == <<"+", "3", "4", "6", "0", "0", "0", "0">>
PhoneLong == <<"+", "5", "4", "9", "1", "1", "2", "2", "3", "3", "4", "4", "5", "5", "6", "6", "7">>
PhoneAlpha == <<"+", "3", "4", "6", "0", "0", "0", "0", "x">>

Phones == {PhoneA, PhoneB, PhoneNoPlus, PhoneShort, PhoneLong, PhoneAlpha, NoStr}

CodigoWrong == <<"1", "2", "3", "4", "5", "6">>
CodigoShort == <<"1", "2", "3", "4", "5">>

Codigos == {codigoAleatorio(f) : f \in RandomFloors} \cup {CodigoWrong, CodigoShort}

IPs == {"ip1", "ip2"}
\* the client of the specifications about codes
CodeIPs == {"ip1"}
Slots == {1, 2}

\* --------------------------------------------------------------- validation
\* seven digits accepted as well
telefonoSchemaSevenDigits(v) ==
    /\ Len(v) >= 1
    /\ v[1] = "+"
    /\ Len(v) - 1 >= MinDigits - 1
    /\ Len(v) - 1 <= MaxDigits
    /\ \A i \in 2..Len(v) : v[i] \in Digits

\* Joi.string().pattern(/^\+\d{8,15}$/).required()
telefonoSchema(v) ==
    /\ Len(v) >= 1
    /\ v[1] = "+"
    /\ Len(v) - 1 >= MinDigits
    /\ Len(v) - 1 <= MaxDigits
    /\ \A i \in 2..Len(v) : v[i] \in Digits

\* userSchema.telefono validator /^\+?\d{7,15}$/
telefonoValidator(v) ==
    LET d == IF Len(v) >= 1 /\ v[1] = "+" THEN Tail(v) ELSE v
    IN  /\ Len(d) >= 7
        /\ Len(d) <= 15
        /\ \A i \in 1..Len(d) : d[i] \in Digits

\* Joi.string().length(6).required()
codigoSchema(c) == Len(c) = CodigoLen

ValidPhones == {p \in Phones : telefonoSchema(p)}

\* ---------------------------------------------------------------- documents
NoUser == [_id |-> NoId, telefono |-> NoStr, codigoVerificacion |-> NoStr,
           codigoExpira |-> NoDate, verificado |-> FALSE]

\* jwt.verify's result: the payload with iat and exp
NoDecoded == [userId |-> NoId, telefono |-> NoStr, verificado |-> FALSE, role |-> "none",
              iat |-> NoDate, exp |-> NoDate]

NoToken == [userId |-> NoId, telefono |-> NoStr, verificado |-> FALSE, role |-> "none"]

IdleReq == [pc |-> "idle", route |-> "none", ip |-> "none", telefono |-> NoStr,
            codigo |-> NoStr, codigoExpira |-> NoDate, at |-> NoDate,
            orig |-> NoUser, user |-> NoUser, isNew |-> FALSE, stale |-> FALSE]

NoRes == [route |-> "none", ip |-> "none", status |-> 0, error |-> "", mensaje |-> "",
          telefono |-> NoStr, codigoIn |-> NoStr, codigo |-> NoStr, token |-> NoToken,
          usuariosLimpiados |-> -1, at |-> NoDate, prior |-> "none",
          success |-> "absent", message |-> "", header |-> << >>,
          usuario |-> NoDecoded, logged |-> NoStr]

\* what the request found in the store: for the properties only
priorOf(r) ==
    IF r.isNew THEN "absent"
    ELSE IF r.orig.verificado THEN "verified"
    ELSE IF r.orig.codigoVerificacion # NoStr THEN "pending"
    ELSE "cleared"

\* User.findOne({ telefono })
findOne(tel) == {u \in users : u.telefono = tel}

\* an ObjectId no document in the store or in flight has
FreshId ==
    LET used == {u._id : u \in users} \cup {reqs[s].user._id : s \in Slots}
    IN  CHOOSE n \in 0..(Cardinality(used)) : n \notin used

\* a new request is served in the first free slot
accepts(s) == reqs[s].pc = "idle" /\ \A t \in Slots : t < s => reqs[t].pc # "idle"

\* ------------------------------------------------------------- rate limiter
\* express-rate-limit memory store: one counter per client, whose window
\* starts at the client's first request and lasts windowMs
\* the window test inverted: a counter inside its window starts again
incrementResetInverted(ip) ==
    LET c == hits[ip]
        cur == IF c.resetTime >= now
               THEN [totalHits |-> 0, resetTime |-> now + windowMs]
               ELSE c
    IN  [cur EXCEPT !.totalHits = @ + 1]

increment(ip) ==
    LET c == hits[ip]
        cur == IF c.resetTime <= now
               THEN [totalHits |-> 0, resetTime |-> now + windowMs]
               ELSE c
    IN  [cur EXCEPT !.totalHits = @ + 1]

\* the request that reaches max already rejected
limitReachedAtMax(h) == h.totalHits >= RateMax

\* totalHits > max: the request gets the 429 message and next() is not called
limitReached(h) == h.totalHits > RateMax

LimitedRes(route, ip) ==
    [NoRes EXCEPT !.route = route, !.ip = ip, !.status = 429, !.success = "false",
                  !.message = "Has superado el limite de solicitudes. Intenta nuevamente mas tarde.",
                  !.at = now]

\* app.use("/auth", authLimiter): runs before every /auth handler
authLimiter(ip) ==
    /\ hits' = [hits EXCEPT ![ip] = increment(ip)]
    /\ IF winFirst[ip] = NoDate \/ now >= winFirst[ip] + windowMs
       THEN /\ winFirst' = [winFirst EXCEPT ![ip] = now]
            /\ winSeen' = [winSeen EXCEPT ![ip] = 1]
       ELSE /\ winFirst' = winFirst
            /\ winSeen' = [winSeen EXCEPT ![ip] = @ + 1]

\* ---------------------------------------------------------------- responses
ErrorRes(r, status, error) ==
    [NoRes EXCEPT !.route = r.route, !.ip = r.ip, !.status = status, !.error = error,
                  !.telefono = r.telefono, !.codigoIn = r.codigo, !.at = r.at]

\* ------------------------------------------------------------ Mongoose save
\* save() of a loaded document sends $set of the modified paths only
saveDelta(stored, orig, user) ==
    [_id |-> stored._id,
     telefono |-> stored.telefono,
     codigoVerificacion |-> IF user.codigoVerificacion # orig.codigoVerificacion
                            THEN user.codigoVerificacion ELSE stored.codigoVerificacion,
     codigoExpira |-> IF user.codigoExpira # orig.codigoExpira
                      THEN user.codigoExpira ELSE stored.codigoExpira,
     verificado |-> IF user.verificado # orig.verificado
                    THEN user.verificado ELSE stored.verificado]

updateOne(r) ==
    {IF u._id = r.orig._id THEN saveDelta(u, r.orig, r.user) ELSE u : u \in users}

\* no unique index on telefono
insertFailsNoIndex(r) == ~telefonoValidator(r.user.telefono)

\* insert of a new document: schema validation, then the unique index on telefono
insertFails(r) ==
    \/ ~telefonoValidator(r.user.telefono)
    \/ \E u \in users : u.telefono = r.user.telefono

\* ----------------------------------------------------------------- register
\* new User({...}) / user.codigoVerificacion = codigo; ... (register)
registerNew(id, tel, codigo, expira) ==
    [_id |-> id, telefono |-> tel, codigoVerificacion |-> codigo,
     codigoExpira |-> expira, verificado |-> FALSE]

registerExisting(u, codigo, expira) ==
    [u EXCEPT !.codigoVerificacion = codigo, !.codigoExpira = expira, !.verificado = FALSE]

\* next() called after the 429 response as well
RegisterArriveAfterLimit(s, ip, tel, f) ==
    /\ accepts(s)
    /\ authLimiter(ip)
    /\ res' = IF limitReached(increment(ip)) THEN LimitedRes("register", ip) ELSE NoRes
    /\ reqs' = [reqs EXCEPT ![s] =
                  [IdleReq EXCEPT !.pc = "find", !.route = "register", !.ip = ip,
                                  !.telefono = tel, !.codigo = codigoAleatorio(f),
                                  !.codigoExpira = codigoExpiraDe(now), !.at = now]]
    /\ sweptAt' = NoDate
    /\ UNCHANGED <<now, users, jwtSecret, nodeEnv, sent, okCount, lastOk>>

\* limiter, validation, code generation (up to await User.findOne)
RegisterArrive(s, ip, tel, f) ==
    /\ accepts(s)
    /\ authLimiter(ip)
    /\ IF limitReached(increment(ip))
       THEN /\ res' = LimitedRes("register", ip)
            /\ UNCHANGED <<reqs, sweptAt>>
       ELSE IF ~telefonoSchema(tel)
       THEN /\ res' = [NoRes EXCEPT !.route = "register", !.ip = ip, !.status = 400,
                          !.error = IF tel = NoStr THEN "telefono is required"
                                    ELSE "El numero de telefono debe comenzar con '+' y tener entre 8 y 15 digitos.",
                          !.telefono = tel, !.at = now]
            /\ UNCHANGED <<reqs, sweptAt>>
       ELSE /\ reqs' = [reqs EXCEPT ![s] =
                          [IdleReq EXCEPT !.pc = "find", !.route = "register", !.ip = ip,
                                          !.telefono = tel, !.codigo = codigoAleatorio(f),
                                          !.codigoExpira = codigoExpiraDe(now), !.at = now]]
            /\ sweptAt' = NoDate
            /\ res' = NoRes
    /\ UNCHANGED <<now, users, jwtSecret, nodeEnv, sent, okCount, lastOk>>

\* await User.findOne({ telefono }) and the assignments that follow
RegisterFind(s) ==
    LET r == reqs[s] IN
    /\ r.pc = "find"
    /\ r.route = "register"
    /\ IF findOne(r.telefono) = {}
       THEN reqs' = [reqs EXCEPT ![s] =
                       [r EXCEPT !.pc = "save", !.isNew = TRUE,
                                 !.user = registerNew(FreshId, r.telefono, r.codigo, r.codigoExpira)]]
       ELSE \E u \in findOne(r.telefono) :
              reqs' = [reqs EXCEPT ![s] =
                       [r EXCEPT !.pc = "save", !.orig = u,
                                 !.user = registerExisting(u, r.codigo, r.codigoExpira)]]
    /\ res' = NoRes
    /\ sweptAt' = NoDate
    /\ UNCHANGED <<now, users, hits, jwtSecret, nodeEnv, sent, winFirst, winSeen, okCount, lastOk>>

\* await user.save() and the response
RegisterSave(s) ==
    LET r == reqs[s] IN
    /\ r.pc = "save"
    /\ r.route = "register"
    /\ sweptAt' = NoDate
    /\ IF r.isNew /\ insertFails(r)
       THEN /\ res' = ErrorRes(r, 500, "Error interno del servidor.")
            /\ reqs' = [reqs EXCEPT ![s] = IdleReq]
            /\ UNCHANGED <<users, okCount, lastOk>>
       ELSE /\ users' = IF r.isNew THEN users \cup {r.user} ELSE updateOne(r)
            /\ res' = [NoRes EXCEPT !.route = "register", !.ip = r.ip, !.status = 200,
                          !.mensaje = "Codigo de verificacion enviado (modo desarrollo, SMS simulado).",
                          !.telefono = r.telefono, !.codigo = r.codigo, !.at = r.at,
                          !.prior = priorOf(r), !.logged = r.codigo]
            /\ reqs' = [t \in Slots |->
                          IF t = s THEN IdleReq
                          ELSE IF reqs[t].telefono = r.telefono
                          THEN [reqs[t] EXCEPT !.stale = TRUE]
                          ELSE reqs[t]]
            /\ okCount' = [okCount EXCEPT ![r.telefono] = 0]
            /\ lastOk' = [lastOk EXCEPT ![r.telefono] = NoStr]
    /\ UNCHANGED <<now, hits, jwtSecret, nodeEnv, sent, winFirst, winSeen>>

\* ------------------------------------------------------------------- verify
\* user.codigoVerificacion !== codigo
codigoIncorrecto(u, codigo) == u.codigoVerificacion # codigo

\* the expiry check left out
codigoVencidoNever(u, t) == FALSE

\* <= in place of <: a code is refused at the instant it expires
codigoVencidoAtBoundary(u, t) == IF u.codigoExpira = NoDate THEN TRUE ELSE u.codigoExpira <= t

\* user.codigoExpira < new Date(): null converts to 0, before any current date
codigoVencido(u, t) == IF u.codigoExpira = NoDate THEN TRUE ELSE u.codigoExpira < t

\* the code left in place on success
verifyMarkKeepsCode(u) == [u EXCEPT !.verificado = TRUE]

\* user.verificado = true; user.codigoVerificacion = null; user.codigoExpira = null
verifyMark(u) ==
    [u EXCEPT !.verificado = TRUE, !.codigoVerificacion = NoStr, !.codigoExpira = NoDate]

\* the payload built from the document as it was found
payloadBeforeMark(u) ==
    [userId |-> u._id, telefono |-> u.telefono, verificado |-> FALSE, role |-> "user"]

\* payload of the JWT
payload(u) ==
    [userId |-> u._id, telefono |-> u.telefono, verificado |-> u.verificado, role |-> "user"]

\* validation ahead of the limiter: a request with an invalid body is answered
\* 400 without being counted
VerifyArriveValidatesFirst(s, ip, tel, codigo) ==
    /\ accepts(s)
    /\ IF ~telefonoSchema(tel) \/ ~codigoSchema(codigo)
       THEN /\ res' = [NoRes EXCEPT !.route = "verify", !.ip = ip, !.status = 400,
                          !.error = "codigo length must be 6 characters long",
                          !.telefono = tel, !.codigoIn = codigo, !.at = now]
            /\ UNCHANGED <<reqs, sweptAt, hits, winFirst, winSeen>>
       ELSE /\ authLimiter(ip)
            /\ IF limitReached(increment(ip))
               THEN /\ res' = LimitedRes("verify", ip)
                    /\ UNCHANGED <<reqs, sweptAt>>
               ELSE /\ reqs' = [reqs EXCEPT ![s] =
                                  [IdleReq EXCEPT !.pc = "find", !.route = "verify", !.ip = ip,
                                                  !.telefono = tel, !.codigo = codigo, !.at = now]]
                    /\ sweptAt' = NoDate
                    /\ res' = NoRes
    /\ UNCHANGED <<now, users, jwtSecret, nodeEnv, sent, okCount, lastOk>>

\* limiter and validation (up to await User.findOne)
VerifyArrive(s, ip, tel, codigo) ==
    /\ accepts(s)
    /\ authLimiter(ip)
    /\ IF limitReached(increment(ip))
       THEN /\ res' = LimitedRes("verify", ip)
            /\ UNCHANGED <<reqs, sweptAt>>
       ELSE IF ~telefonoSchema(tel) \/ ~codigoSchema(codigo)
       THEN /\ res' = [NoRes EXCEPT !.route = "verify", !.ip = ip, !.status = 400,
                          !.error = IF tel = NoStr THEN "telefono is required"
                                    ELSE IF ~telefonoSchema(tel)
                                    THEN "El numero de telefono debe comenzar con '+' y tener entre 8 y 15 digitos."
                                    ELSE "codigo length must be 6 characters long",
                          !.telefono = tel, !.codigoIn = codigo, !.at = now]
            /\ UNCHANGED <<reqs, sweptAt>>
       ELSE /\ reqs' = [reqs EXCEPT ![s] =
                          [IdleReq EXCEPT !.pc = "find", !.route = "verify", !.ip = ip,
                                          !.telefono = tel, !.codigo = codigo, !.at = now]]
            /\ sweptAt' = NoDate
            /\ res' = NoRes
    /\ UNCHANGED <<now, users, jwtSecret, nodeEnv, sent, okCount, lastOk>>

\* the expired code cleared by the verify that finds it
VerifyFindClearsExpired(s) ==
    LET r == reqs[s] IN
    /\ r.pc = "find"
    /\ r.route = "verify"
    /\ IF findOne(r.telefono) = {}
       THEN /\ res' = ErrorRes(r, 404, "Usuario no encontrado.")
            /\ reqs' = [reqs EXCEPT ![s] = IdleReq]
            /\ users' = users
       ELSE \E u \in findOne(r.telefono) :
              IF codigoIncorrecto(u, r.codigo)
              THEN /\ res' = ErrorRes(r, 400, "Codigo incorrecto.")
                   /\ reqs' = [reqs EXCEPT ![s] = IdleReq]
                   /\ users' = users
              ELSE IF codigoVencido(u, now)
              THEN /\ res' = ErrorRes(r, 400, "El codigo ha expirado.")
                   /\ reqs' = [reqs EXCEPT ![s] = IdleReq]
                   /\ users' = {IF v = u
                                THEN [v EXCEPT !.codigoVerificacion = NoStr, !.codigoExpira = NoDate]
                                ELSE v : v \in users}
              ELSE /\ reqs' = [reqs EXCEPT ![s] =
                                 [r EXCEPT !.pc = "save", !.orig = u, !.user = verifyMark(u),
                                           !.stale = FALSE]]
                   /\ res' = NoRes
                   /\ users' = users
    /\ sweptAt' = NoDate
    /\ UNCHANGED <<now, hits, jwtSecret, nodeEnv, sent, winFirst, winSeen, okCount, lastOk>>

\* await User.findOne({ telefono }), the three checks and the assignments
VerifyFind(s) ==
    LET r == reqs[s] IN
    /\ r.pc = "find"
    /\ r.route = "verify"
    /\ IF findOne(r.telefono) = {}
       THEN /\ res' = ErrorRes(r, 404, "Usuario no encontrado.")
            /\ reqs' = [reqs EXCEPT ![s] = IdleReq]
       ELSE \E u \in findOne(r.telefono) :
              IF codigoIncorrecto(u, r.codigo)
              THEN /\ res' = ErrorRes(r, 400, "Codigo incorrecto.")
                   /\ reqs' = [reqs EXCEPT ![s] = IdleReq]
              ELSE IF codigoVencido(u, now)
              THEN /\ res' = ErrorRes(r, 400, "El codigo ha expirado.")
                   /\ reqs' = [reqs EXCEPT ![s] = IdleReq]
              ELSE /\ reqs' = [reqs EXCEPT ![s] =
                                 [r EXCEPT !.pc = "save", !.orig = u, !.user = verifyMark(u),
                                           !.stale = FALSE]]
                   /\ res' = NoRes
    /\ sweptAt' = NoDate
    /\ UNCHANGED <<now, users, hits, jwtSecret, nodeEnv, sent, winFirst, winSeen, okCount, lastOk>>

\* the token signed ahead of the save: nothing is stored when signing throws
VerifySaveSignsFirst(s) ==
    LET r == reqs[s] IN
    /\ r.pc = "save"
    /\ r.route = "verify"
    /\ reqs' = [reqs EXCEPT ![s] = IdleReq]
    /\ sweptAt' = NoDate
    /\ IF jwtSecret
       THEN /\ users' = updateOne(r)
            /\ res' = [NoRes EXCEPT !.route = "verify", !.ip = r.ip, !.status = 200,
                          !.mensaje = "Telefono verificado correctamente.",
                          !.telefono = r.telefono, !.codigoIn = r.codigo,
                          !.token = payload(r.user), !.at = r.at, !.prior = priorOf(r)]
            /\ IF r.stale
               THEN UNCHANGED <<okCount, lastOk>>
               ELSE /\ okCount' = [okCount EXCEPT ![r.telefono] = @ + 1]
                    /\ lastOk' = [lastOk EXCEPT ![r.telefono] = r.codigo]
       ELSE /\ users' = users
            /\ res' = ErrorRes(r, 500, "Error interno del servidor.")
            /\ UNCHANGED <<okCount, lastOk>>
    /\ UNCHANGED <<now, hits, jwtSecret, nodeEnv, sent, winFirst, winSeen>>

\* await user.save(), jwt.sign and the response
VerifySave(s) ==
    LET r == reqs[s] IN
    /\ r.pc = "save"
    /\ r.route = "verify"
    /\ users' = updateOne(r)
    /\ reqs' = [reqs EXCEPT ![s] = IdleReq]
    /\ sweptAt' = NoDate
    /\ IF jwtSecret
       THEN /\ res' = [NoRes EXCEPT !.route = "verify", !.ip = r.ip, !.status = 200,
                          !.mensaje = "Telefono verificado correctamente.",
                          !.telefono = r.telefono, !.codigoIn = r.codigo,
                          !.token = payload(r.user), !.at = r.at, !.prior = priorOf(r)]
            /\ IF r.stale
               THEN UNCHANGED <<okCount, lastOk>>
               ELSE /\ okCount' = [okCount EXCEPT ![r.telefono] = @ + 1]
                    /\ lastOk' = [lastOk EXCEPT ![r.telefono] = r.codigo]
       ELSE /\ res' = ErrorRes(r, 500, "Error interno del servidor.")
            /\ UNCHANGED <<okCount, lastOk>>
    /\ UNCHANGED <<now, hits, jwtSecret, nodeEnv, sent, winFirst, winSeen>>

\* ------------------------------------------------------------------ cleanup
\* $lte in place of $lt
cleanupFilterInclusive(u, t) == u.codigoExpira # NoDate /\ u.codigoExpira <= t

\* { codigoExpira: { $lt: new Date() } }: matches dates only, never null
cleanupFilter(u, t) == u.codigoExpira # NoDate /\ u.codigoExpira < t

\* codigoExpira left in place
cleanupUnsetCodeOnly(u) == [u EXCEPT !.codigoVerificacion = NoStr]

\* $unset: { codigoVerificacion: "", codigoExpira: "" }
cleanupUnset(u) == [u EXCEPT !.codigoVerificacion = NoStr, !.codigoExpira = NoDate]

\* limiter; new Date() of the filter is taken when updateMany is called
CleanupArrive(s, ip) ==
    /\ accepts(s)
    /\ authLimiter(ip)
    /\ IF limitReached(increment(ip))
       THEN /\ res' = LimitedRes("cleanup", ip)
            /\ UNCHANGED reqs
       ELSE /\ reqs' = [reqs EXCEPT ![s] =
                          [IdleReq EXCEPT !.pc = "update", !.route = "cleanup", !.ip = ip,
                                          !.at = now]]
            /\ res' = NoRes
    /\ UNCHANGED <<now, users, jwtSecret, nodeEnv, sent, okCount, lastOk, sweptAt>>

\* await User.updateMany(...) and the response
CleanupUpdate(s) ==
    LET r == reqs[s]
        matched == {u \in users : cleanupFilter(u, r.at)}
    IN
    /\ r.pc = "update"
    /\ r.route = "cleanup"
    /\ users' = {IF u \in matched THEN cleanupUnset(u) ELSE u : u \in users}
    /\ reqs' = [reqs EXCEPT ![s] = IdleReq]
    /\ res' = [NoRes EXCEPT !.route = "cleanup", !.ip = r.ip, !.status = 200,
                  !.mensaje = "Codigos expirados eliminados.",
                  !.usuariosLimpiados = Cardinality(matched), !.at = r.at,
                  !.prior = IF sweptAt = NoDate THEN "none" ELSE "swept"]
    /\ sweptAt' = r.at
    /\ UNCHANGED <<now, hits, jwtSecret, nodeEnv, sent, winFirst, winSeen, okCount, lastOk>>

\* ----------------------------------------------------------- authMiddleware
\* a header is the sequence of the words its string splits into at " ";
\* no header is the empty sequence
NoHeader == << >>

\* the tokens clients send: issued by this server for the account of PhoneA
\* and still valid, issued seven days before the start, signed with another
\* secret, issued for the account of PhoneB and still valid, and not a JWT
Jwts ==
    [t \in {"jwt.ok", "jwt.expired", "jwt.forged", "jwt.b"} |->
       [payload |-> [userId |-> IF t = "jwt.b" THEN 1 ELSE 0,
                     telefono |-> IF t = "jwt.b" THEN PhoneB ELSE PhoneA,
                     verificado |-> TRUE, role |-> "user"],
        key |-> IF t = "jwt.forged" THEN "other" ELSE "JWT_SECRET",
        iat |-> IF t = "jwt.expired" THEN 0 - JwtExpiresIn ELSE 0,
        exp |-> IF t = "jwt.expired" THEN 0 ELSE JwtExpiresIn]]

Headers ==
    {NoHeader, <<"Bearer">>, <<"Basic", "jwt.ok">>, <<"bearer", "jwt.ok">>,
     <<"Bearer", "jwt.ok">>, <<"Bearer", "jwt.expired">>, <<"Bearer", "jwt.forged">>,
     <<"Bearer", "garbage">>, <<"Bearer", "", "jwt.ok">>, <<"Bearer", "jwt.ok", "extra">>}

\* any scheme accepted
startsWithAnyScheme(h) == Len(h) >= 2

\* !authHeader || !authHeader.startsWith("Bearer ") negated
startsWithBearer(h) == Len(h) >= 2 /\ h[1] = "Bearer"

\* jwt.verify(token, process.env.JWT_SECRET) does not throw
jwtVerifies(token) ==
    /\ jwtSecret
    /\ token \in DOMAIN Jwts
    /\ Jwts[token].key = "JWT_SECRET"
    /\ now < Jwts[token].exp

decoded(token) ==
    LET j == Jwts[token]
    IN  [userId |-> j.payload.userId, telefono |-> j.payload.telefono,
         verificado |-> j.payload.verificado, role |-> j.payload.role,
         iat |-> j.iat, exp |-> j.exp]

\* ------------------------------------------------------------------ routing
\* a path is the sequence of its segments
PrivadoPath == <<"privado">>
OutsidePaths == {<<"serv">>, <<"clic">>, << >>, <<"otra">>, <<"auth", "otra">>}

\* what the routers of /serv and /clic answer; their collections are not
\* part of this model
OutsideStatuses == {200, 404, 500}

\* the limiter mounted on every path
underAuthAll(path) == TRUE

\* app.use("/auth", ...) matches the paths whose first segment is auth
underAuth(path) == Len(path) >= 1 /\ path[1] = "auth"

\* the middleware mounted on /auth, for a request to path
Gate(ip, path) ==
    IF underAuth(path)
    THEN authLimiter(ip)
    ELSE UNCHANGED <<hits, winFirst, winSeen>>

limited(ip, path) == underAuth(path) /\ limitReached(increment(ip))

routeOf(path) ==
    IF path = << >> THEN "root"
    ELSE IF path[1] \in {"serv", "clic", "privado"} THEN path[1]
    ELSE "none"

\* GET /privado: authMiddleware, then the handler
Privado(ip, h) ==
    /\ Gate(ip, PrivadoPath)
    /\ res' = IF limited(ip, PrivadoPath) THEN LimitedRes("privado", ip)
              ELSE IF ~startsWithBearer(h)
              THEN [NoRes EXCEPT !.route = "privado", !.ip = ip, !.status = 401,
                                 !.error = "Acceso no autorizado. Token faltante.",
                                 !.header = h, !.at = now]
              ELSE IF ~jwtVerifies(h[2])
              THEN [NoRes EXCEPT !.route = "privado", !.ip = ip, !.status = 401,
                                 !.error = "Token invalido o expirado.",
                                 !.header = h, !.at = now]
              ELSE [NoRes EXCEPT !.route = "privado", !.ip = ip, !.status = 200,
                                 !.mensaje = "Accediste a una ruta privada con exito.",
                                 !.usuario = decoded(h[2]), !.header = h, !.at = now]
    /\ UNCHANGED <<now, users, reqs, jwtSecret, nodeEnv, sent, okCount, lastOk, sweptAt>>

\* a request to /serv, /clic, / or a path no route matches
Outside(ip, path, st) ==
    /\ Gate(ip, path)
    /\ res' = IF limited(ip, path) THEN LimitedRes(routeOf(path), ip)
              ELSE IF path = << >>
              THEN [NoRes EXCEPT !.route = "root", !.ip = ip, !.status = 200,
                                 !.mensaje = "Backend de App-Servicios iniciado correctamente",
                                 !.at = now]
              ELSE IF path[1] \in {"serv", "clic"}
              THEN [NoRes EXCEPT !.route = path[1], !.ip = ip, !.status = st, !.at = now]
              ELSE [NoRes EXCEPT !.route = "none", !.ip = ip, !.status = 404,
                                 !.error = "Ruta no encontrada", !.at = now]
    /\ UNCHANGED <<now, users, reqs, jwtSecret, nodeEnv, sent, okCount, lastOk, sweptAt>>

\* -------------------------------------------------------------------- clock
Tick(step, last) ==
    /\ now + step <= last
    /\ now' = now + step
    /\ res' = NoRes
    /\ UNCHANGED <<users, hits, reqs, jwtSecret, nodeEnv, sent, winFirst, winSeen, okCount, lastOk, sweptAt>>

\* ------------------------------------------------------- services: documents
\* a field a body, a query or a stored document does not have
NoNum == -99
Absent == "absent"

\* the paths of serviceSchema; nombre stands for the String paths a PUT
\* /profile can set; timestamps are left out
SchemaPaths == {"_id", "nombre", "telefono", "horaDesde", "horaHasta"}

\* a document of the services collection. deleted and deletedAt are no paths
\* of serviceSchema: a stored document has them only if something wrote them
NoService == [_id |-> NoId, telefono |-> NoStr, nombre |-> NoStr, horaDesde |-> NoNum,
              horaHasta |-> NoNum, deleted |-> Absent, deletedAt |-> NoDate]

\* doc.path = value followed by save(): strict mode keeps paths of the schema
\* only; anything else stays a property of the object in memory
setPath(doc, path, value) ==
    IF path \in SchemaPaths THEN [doc EXCEPT ![path] = value] ELSE doc

\* names and name patterns of the inputs
Ana == <<"a", "n", "a">>
Bea == <<"b", "e", "a">>
Nombres == {Ana, Bea}

\* min/max of horaDesde and horaHasta
HoraMin == 0
HoraMax == 23

\* a request body: the fields it does not carry are NoStr or NoNum
NoBody == [nombre |-> NoStr, telefono |-> NoStr, horaDesde |-> NoNum, horaHasta |-> NoNum,
           horarios |-> NoStr]

\* Joi.number().min(0).max(23)
horaSchema(h) == h >= HoraMin /\ h <= HoraMax

\* Joi.string().pattern(/^\+?\d{7,15}$/)
servTelefonoSchema(tel) == telefonoValidator(tel)

\* schemaPut: every key optional; horaHasta must be greater than
\* Joi.ref("horaDesde"), which must resolve to a number; unknown keys refused
schemaPut(b) ==
    /\ b.horarios = NoStr
    /\ b.telefono = NoStr \/ servTelefonoSchema(b.telefono)
    /\ b.horaDesde = NoNum \/ horaSchema(b.horaDesde)
    /\ b.horaHasta = NoNum
          \/ (horaSchema(b.horaHasta) /\ b.horaDesde # NoNum /\ b.horaHasta > b.horaDesde)

\* schemaPost: the same rules with every key required
schemaPost(b) ==
    /\ b.nombre # NoStr
    /\ b.telefono # NoStr
    /\ b.horaDesde # NoNum
    /\ b.horaHasta # NoNum
    /\ schemaPut(b)

\* new Service({...}) of POST /serv
newService(id, b) ==
    [NoService EXCEPT !._id = id, !.telefono = b.telefono, !.nombre = b.nombre,
                      !.horaDesde = b.horaDesde, !.horaHasta = b.horaHasta]

\* Service.findByIdAndUpdate(id, req.body, { new: true }): $set of the keys of
\* the body, no validators run
findByIdAndUpdate(doc, b) ==
    [doc EXCEPT !.nombre = IF b.nombre = NoStr THEN @ ELSE b.nombre,
                !.telefono = IF b.telefono = NoStr THEN @ ELSE b.telefono,
                !.horaDesde = IF b.horaDesde = NoNum THEN @ ELSE b.horaDesde,
                !.horaHasta = IF b.horaHasta = NoNum THEN @ ELSE b.horaHasta]

\* --------------------------------------------------------- services: queries
\* a query string: nombre (a pattern), hora, limit, skip, sort
NoQuery == [nombre |-> NoStr, hora |-> NoNum, limit |-> NoNum, skip |-> NoNum, sort |-> NoStr]

\* sort=-_id
SortDesc == <<"-", "_", "i", "d">>

\* the schema of GET /serv: hora 0..23, limit 1..100, skip >= 0
LimitMin == 1
LimitMax == 100

querySchema(q) ==
    /\ q.hora = NoNum \/ horaSchema(q.hora)
    /\ q.limit = NoNum \/ (q.limit >= LimitMin /\ q.limit <= LimitMax)
    /\ q.skip = NoNum \/ q.skip >= 0

\* "i" flag: letters compared in lower case
Lower(c) == IF c = "A" THEN "a" ELSE IF c = "B" THEN "b" ELSE IF c = "N" THEN "n" ELSE c

\* new RegExp(pattern, "i").test(s): the pattern occurs somewhere in s
regExpTest(pattern, s) ==
    \E i \in 0..(Len(s) - Len(pattern)) :
        \A j \in 1..Len(pattern) : Lower(s[i + j]) = Lower(pattern[j])

\* the filter built from the query
matches(q, doc) ==
    /\ q.nombre = NoStr \/ regExpTest(q.nombre, doc.nombre)
    /\ q.hora = NoNum \/ (doc.horaDesde <= q.hora /\ doc.horaHasta > q.hora)

\* JSON.stringify({ filtro, limit, skip, sort }): a RegExp is written as {},
\* whatever its pattern
cacheKey(q) ==
    [filtro |-> [nombre |-> IF q.nombre = NoStr THEN NoStr ELSE <<"{", "}">>, hora |-> q.hora],
     limit |-> q.limit, skip |-> q.skip, sort |-> q.sort]

\* the documents of a set in the order of their _id
RECURSIVE inOrder(_)
inOrder(docs) ==
    IF docs = {} THEN << >>
    ELSE LET first == CHOOSE d \in docs : \A e \in docs : d._id <= e._id
         IN  <<first>> \o inOrder(docs \ {first})

RECURSIVE reversed(_)
reversed(seq) == IF seq = << >> THEN << >> ELSE Append(reversed(Tail(seq)), Head(seq))

\* Service.find(filtro) with sort, skip and limit applied in that order
find(q) ==
    LET found == inOrder({d \in services : matches(q, d)})
        sorted == IF q.sort = SortDesc THEN reversed(found) ELSE found
        from == IF q.skip = NoNum THEN 1 ELSE q.skip + 1
        upto == IF q.limit = NoNum \/ from + q.limit - 1 > Len(sorted)
                THEN Len(sorted) ELSE from + q.limit - 1
    IN  SubSeq(sorted, from, upto)

\* ----------------------------------------------------------- services: cache
\* an entry of the NodeCache: key, value and the time t it expires at
\* an expired entry returned as well
cacheGetExpired(key) == {e \in cache : e.key = key}

\* cache.get(key): the entry of the key unless t < Date.now()
cacheGet(key) == {e \in cache : e.key = key /\ ~(e.t < clock)}

\* cache.set(key, value) with the standard TTL
cacheSet(key, value) ==
    {e \in cache : e.key # key} \cup {[key |-> key, v |-> value, t |-> clock + stdTTL]}

\* ---------------------------------------------------------- services: routes
\* a response of the services and profile routers, with the query of a GET
\* /serv and whether it was answered from the cache or by a query (source),
\* the :id of the request, the telefono of its token and the body of a PUT
\* /profile (reqBody)
NoOut == [route |-> "none", status |-> 0, error |-> "", mensaje |-> "", body |-> << >>,
          source |-> "none", query |-> NoQuery, id |-> NoId, telefono |-> NoStr,
          reqBody |-> NoBody, count |-> NoNum]

\* GET /serv
ServGet(q) ==
    /\ IF ~querySchema(q)
       THEN /\ out' = [NoOut EXCEPT !.route = "GET /serv", !.status = 400,
                                    !.error = "validation", !.query = q]
            /\ cache' = cache
       ELSE IF cacheGet(cacheKey(q)) # {}
       THEN /\ \E e \in cacheGet(cacheKey(q)) :
                 out' = [NoOut EXCEPT !.route = "GET /serv", !.status = 200, !.body = e.v,
                                      !.source = "cache", !.query = q]
            /\ cache' = cache
       ELSE /\ out' = [NoOut EXCEPT !.route = "GET /serv", !.status = 200, !.body = find(q),
                                    !.source = "store", !.query = q]
            /\ cache' = cacheSet(cacheKey(q), find(q))
    /\ UNCHANGED <<services, made, clock, strictQuery>>

\* POST /serv
ServPost(b) ==
    /\ IF ~schemaPost(b)
       THEN /\ out' = [NoOut EXCEPT !.route = "POST /serv", !.status = 400,
                                    !.error = "validation"]
            /\ UNCHANGED <<services, made>>
       ELSE /\ services' = services \cup {newService(made, b)}
            /\ made' = made + 1
            /\ out' = [NoOut EXCEPT !.route = "POST /serv", !.status = 201,
                                    !.body = <<newService(made, b)>>, !.id = made]
    /\ UNCHANGED <<cache, clock, strictQuery>>

\* PUT /serv/:id
ServPut(id, b) ==
    /\ IF ~schemaPut(b)
       THEN /\ out' = [NoOut EXCEPT !.route = "PUT /serv", !.status = 400,
                                    !.error = "validation", !.id = id]
            /\ services' = services
       ELSE IF \A d \in services : d._id # id
       THEN /\ out' = [NoOut EXCEPT !.route = "PUT /serv", !.status = 404,
                                    !.error = "Servicio no encontrado", !.id = id]
            /\ services' = services
       ELSE /\ services' = {IF d._id = id THEN findByIdAndUpdate(d, b) ELSE d : d \in services}
            /\ out' = [NoOut EXCEPT !.route = "PUT /serv", !.status = 200, !.id = id,
                                    !.body = inOrder({findByIdAndUpdate(d, b) :
                                                        d \in {e \in services : e._id = id}})]
    /\ UNCHANGED <<cache, made, clock, strictQuery>>

\* DELETE /serv/:id
ServDelete(id) ==
    /\ IF \A d \in services : d._id # id
       THEN /\ out' = [NoOut EXCEPT !.route = "DELETE /serv", !.status = 404,
                                    !.error = "Servicio no encontrado", !.id = id]
            /\ services' = services
       ELSE /\ services' = {d \in services : d._id # id}
            /\ out' = [NoOut EXCEPT !.route = "DELETE /serv", !.status = 200, !.id = id,
                                    !.mensaje = "Servicio eliminado con exito"]
    /\ UNCHANGED <<cache, made, clock, strictQuery>>

\* ----------------------------------------------------------- profile: routes
\* the headers of the requests to /profile
ProfHeaders ==
    {NoHeader, <<"Bearer", "jwt.ok">>, <<"Bearer", "jwt.b">>, <<"Bearer", "jwt.forged">>}

\* a body with telefono let through
profileUpdateSchemaWithTelefono(b) ==
    b.horaDesde = NoNum /\ b.horaHasta = NoNum

\* profileUpdateSchema: nombre, categoria, tipoServicio, localidad, horarios,
\* urgencias24hs, localidadesCercanas, descripcion; any other key is refused
profileUpdateSchema(b) ==
    b.telefono = NoStr /\ b.horaDesde = NoNum /\ b.horaHasta = NoNum

\* Service.findOne({ telefono, deleted: false }): with strictQuery the
\* condition on deleted, no path of the schema, is dropped from the filter;
\* without it the condition only matches a stored deleted: false
profileFindOne(tel) ==
    LET found == {d \in services : d.telefono = tel /\ (strictQuery \/ d.deleted = "false")}
    IN  {d \in found : \A e \in found : d._id <= e._id}

\* Object.keys(value).forEach(key => { service[key] = value[key]; })
profileAssign(doc, b) ==
    LET named == IF b.nombre = NoStr THEN doc ELSE setPath(doc, "nombre", b.nombre)
        moved == IF b.telefono = NoStr THEN named ELSE setPath(named, "telefono", b.telefono)
    IN  IF b.horarios = NoStr THEN moved ELSE setPath(moved, "horarios", b.horarios)

\* service.deleted = true; service.deletedAt = new Date()
softDelete(doc) == setPath(setPath(doc, "deleted", "true"), "deletedAt", clock)

\* authMiddleware in front of a /profile handler: the 401 answers
Unauthorized(route, h) ==
    [NoOut EXCEPT !.route = route, !.status = 401,
                  !.error = IF ~startsWithBearer(h) THEN "Acceso no autorizado. Token faltante."
                            ELSE "Token invalido o expirado."]

authorized(h) == startsWithBearer(h) /\ jwtVerifies(h[2])

\* GET /profile
ProfileGet(h) ==
    /\ out' = IF ~authorized(h) THEN Unauthorized("GET /profile", h)
              ELSE LET tel == decoded(h[2]).telefono IN
                   IF profileFindOne(tel) = {}
                   THEN [NoOut EXCEPT !.route = "GET /profile", !.status = 404,
                                      !.error = "Perfil no encontrado.", !.telefono = tel]
                   ELSE [NoOut EXCEPT !.route = "GET /profile", !.status = 200,
                                      !.body = inOrder(profileFindOne(tel)), !.telefono = tel]
    /\ UNCHANGED <<services, cache, made, clock, strictQuery>>

\* PUT /profile
ProfilePut(h, b) ==
    /\ IF ~authorized(h)
       THEN /\ out' = [Unauthorized("PUT /profile", h) EXCEPT !.reqBody = b]
            /\ services' = services
       ELSE LET tel == decoded(h[2]).telefono IN
            IF ~profileUpdateSchema(b)
            THEN /\ out' = [NoOut EXCEPT !.route = "PUT /profile", !.status = 400,
                                         !.error = "validation", !.telefono = tel,
                                         !.reqBody = b]
                 /\ services' = services
            ELSE IF profileFindOne(tel) = {}
            THEN /\ out' = [NoOut EXCEPT !.route = "PUT /profile", !.status = 404,
                                         !.error = "Perfil no encontrado.", !.telefono = tel,
                                         !.reqBody = b]
                 /\ services' = services
            ELSE /\ services' = {IF d \in profileFindOne(tel) THEN profileAssign(d, b) ELSE d :
                                   d \in services}
                 /\ out' = [NoOut EXCEPT !.route = "PUT /profile", !.status = 200,
                                         !.mensaje = "Perfil actualizado correctamente.",
                                         !.body = inOrder({profileAssign(d, b) :
                                                             d \in profileFindOne(tel)}),
                                         !.telefono = tel, !.reqBody = b]
    /\ UNCHANGED <<cache, made, clock, strictQuery>>

\* DELETE /profile
ProfileDelete(h) ==
    /\ IF ~authorized(h)
       THEN /\ out' = Unauthorized("DELETE /profile", h)
            /\ services' = services
       ELSE LET tel == decoded(h[2]).telefono IN
            IF profileFindOne(tel) = {}
            THEN /\ out' = [NoOut EXCEPT !.route = "DELETE /profile", !.status = 404,
                                         !.error = "Perfil no encontrado.", !.telefono = tel]
                 /\ services' = services
            ELSE /\ services' = {IF d \in profileFindOne(tel) THEN softDelete(d) ELSE d :
                                   d \in services}
                 /\ out' = [NoOut EXCEPT !.route = "DELETE /profile", !.status = 200,
                                         !.mensaje = "Perfil eliminado correctamente (soft delete).",
                                         !.telefono = tel]
    /\ UNCHANGED <<cache, made, clock, strictQuery>>

\* Service.deleteMany({ deleted: true, deletedAt: { $lte: fechaLimite } }):
\* with strictQuery both conditions are dropped and the filter is empty
cleanupMatches(d) ==
    \/ strictQuery
    \/ d.deleted = "true" /\ d.deletedAt # NoDate /\ d.deletedAt <= clock - CleanupAge

\* DELETE /profile/cleanup
ProfileCleanup(h) ==
    /\ IF ~authorized(h)
       THEN /\ out' = Unauthorized("DELETE /profile/cleanup", h)
            /\ services' = services
       ELSE /\ services' = {d \in services : ~cleanupMatches(d)}
            /\ out' = [NoOut EXCEPT !.route = "DELETE /profile/cleanup", !.status = 200,
                                    !.mensaje = "Cleanup definitivo ejecutado.",
                                    !.count = Cardinality({d \in services : cleanupMatches(d)}),
                                    !.telefono = decoded(h[2]).telefono]
    /\ UNCHANGED <<cache, made, clock, strictQuery>>

\* the clock of the services and profile routers advances by one tick
ClockTick(last) ==
    /\ clock + 1 <= last
    /\ clock' = clock + 1
    /\ out' = NoOut
    /\ UNCHANGED <<services, cache, made, strictQuery>>

\* ------------------------------------------------------------ specification
\* the collection found at process start: empty, or left by an earlier run
\* with a code pending for PhoneA
InitUsers ==
    {{}, {registerNew(0, PhoneA, codigoAleatorio(0), codigoExpiraDe(0))}}

\* the values of NODE_ENV
NodeEnvs == {"development", "production"}

Boot(env) ==
    /\ nodeEnv = env
    /\ sent = {}
    /\ now = 0
    /\ users \in InitUsers
    /\ hits = [ip \in IPs |-> [totalHits |-> 0, resetTime |-> 0]]
    /\ reqs = [s \in Slots |-> IdleReq]
    /\ res = NoRes
    /\ jwtSecret \in BOOLEAN
    /\ winFirst = [ip \in IPs |-> NoDate]
    /\ winSeen = [ip \in IPs |-> 0]
    /\ okCount = [p \in ValidPhones |-> 0]
    /\ lastOk = [p \in ValidPhones |-> NoStr]
    /\ sweptAt = NoDate
    /\ passedAt = [ip \in IPs |-> << >>]

\* nothing has reached the /serv and /profile routers; strictQuery is read by
\* the /profile router only
NoServices ==
    /\ services = {}
    /\ cache = {}
    /\ made = 0
    /\ clock = 0
    /\ strictQuery = TRUE
    /\ out = NoOut

\* the process as it is started for development
Init == Boot("development") /\ NoServices

Requests(ips, phones, floors, codigos) ==
    \/ \E s \in Slots, ip \in ips, tel \in phones, f \in floors : RegisterArrive(s, ip, tel, f)
    \/ \E s \in Slots : RegisterFind(s)
    \/ \E s \in Slots : RegisterSave(s)
    \/ \E s \in Slots, ip \in ips, tel \in phones, codigo \in codigos : VerifyArrive(s, ip, tel, codigo)
    \/ \E s \in Slots : VerifyFind(s)
    \/ \E s \in Slots : VerifySave(s)
    \/ \E s \in Slots, ip \in ips : CleanupArrive(s, ip)
    \/ \E s \in Slots : CleanupUpdate(s)

\* inputs of the specifications about codes
SeqPhones == {PhoneA, PhoneB, PhoneShort}
SeqFloors == {0}
SeqCodigos == {codigoAleatorio(0), CodigoWrong, CodigoShort}
ConcPhones == {PhoneA, PhoneShort}
ConcCodigos == {codigoAleatorio(f) : f \in RandomFloors}

\* no client has sent more than n requests in its window
HitsWithin(n) == \A ip \in IPs : hits[ip].totalHits <= n

\* concurrent requests of one client on one phone
Next ==
    /\ \/ Requests(CodeIPs, ConcPhones, RandomFloors, ConcCodigos)
       \/ Tick(1, MaxConcTime)
    /\ HitsWithin(MaxCodeHits)'
    /\ UNCHANGED passedAt
    /\ UNCHANGED svcVars

Spec == Init /\ [][Next]_vars

\* one request at a time: a request arrives only when none is in progress
Sequential == Cardinality({s \in Slots : reqs[s].pc # "idle"}) <= 1

SeqNext ==
    /\ \/ Requests(CodeIPs, SeqPhones, SeqFloors, SeqCodigos)
       \/ Tick(1, MaxCodeTime)
    /\ Sequential'
    /\ HitsWithin(MaxCodeHits)'
    /\ UNCHANGED passedAt
    /\ UNCHANGED svcVars

SeqSpec == Init /\ [][SeqNext]_vars

\* every phone input, one request at a time
ValCodigos == {codigoAleatorio(0)}

ValNext ==
    /\ \/ Requests(CodeIPs, Phones, SeqFloors, ValCodigos)
       \/ Tick(1, MaxConcTime)
    /\ Sequential'
    /\ HitsWithin(MaxCodeHits)'
    /\ UNCHANGED passedAt
    /\ UNCHANGED svcVars

ValSpec == Init /\ [][ValNext]_vars

\* two clients over more than one window, one request at a time
LimPhones == {PhoneA}
LimCodigos == {codigoAleatorio(0)}

\* the clock of this specification advances by half a window
LimStep == windowMs \div 2

LimInit == Init /\ users = {} /\ jwtSecret

LimNext ==
    /\ \/ Requests(IPs, LimPhones, SeqFloors, LimCodigos)
       \/ Tick(LimStep, MaxTime)
    /\ Sequential'
    /\ HitsWithin(MaxHits)'
    /\ UNCHANGED passedAt
    /\ UNCHANGED svcVars

LimSpec == LimInit /\ [][LimNext]_vars

\* every route of the application, in either mode, one request at a time
AppInit == (\E env \in NodeEnvs : Boot(env)) /\ NoServices

AppNext ==
    /\ \/ Requests(CodeIPs, LimPhones, SeqFloors, LimCodigos)
       \/ \E ip \in CodeIPs, h \in Headers : Privado(ip, h)
       \/ \E ip \in CodeIPs, path \in OutsidePaths, st \in OutsideStatuses : Outside(ip, path, st)
       \/ Tick(LimStep, MaxTime)
    /\ Sequential'
    /\ HitsWithin(MaxHits)'
    /\ UNCHANGED passedAt
    /\ UNCHANGED svcVars

AppSpec == AppInit /\ [][AppNext]_vars

\* one client on every /auth route within one window, with right and wrong
\* codes, one request at a time
CountNext ==
    /\ \/ Requests(CodeIPs, LimPhones, SeqFloors, SeqCodigos)
       \/ Tick(1, MaxConcTime)
    /\ Sequential'
    /\ HitsWithin(MaxHits)'
    /\ UNCHANGED passedAt
    /\ UNCHANGED svcVars

CountSpec == LimInit /\ [][CountNext]_vars

\* one client of one /auth route over three windows, one request at a time,
\* with the times of the requests the limiter let through
\* the clock of this specification advances by a third of a window
WinStep == windowMs \div 3

Keep(times) == IF Len(times) > 2 * RateMax + 1 THEN Tail(times) ELSE times

Recorded ==
    passedAt' = [ip \in IPs |->
                   IF hits'[ip] # hits[ip] /\ res'.status # 429
                   THEN Keep(Append(passedAt[ip], now))
                   ELSE passedAt[ip]]

WinNext ==
    /\ \/ \E s \in Slots, ip \in CodeIPs : CleanupArrive(s, ip)
       \/ \E s \in Slots : CleanupUpdate(s)
       \/ Tick(WinStep, MaxWinTime)
    /\ Sequential'
    /\ HitsWithin(MaxHits)'
    /\ Recorded
    /\ UNCHANGED svcVars

WinSpec == LimInit /\ [][WinNext]_vars


\* the body and query inputs
BodyNombre(n) == [NoBody EXCEPT !.nombre = n]
BodyFull(tel, n, d, h) ==
    [NoBody EXCEPT !.telefono = tel, !.nombre = n, !.horaDesde = d, !.horaHasta = h]

\* no more than n documents have been created
MadeWithin(n) == made <= n

\* the process started with an empty services collection, /auth left alone
SvcInit == LimInit

\* GET, POST, PUT and DELETE /serv on documents that differ in nombre, over
\* more than one TTL of the cache
CacheQueries ==
    {[NoQuery EXCEPT !.limit = 1],
     [NoQuery EXCEPT !.nombre = <<"A", "N">>],
     [NoQuery EXCEPT !.nombre = <<"b">>],
     [NoQuery EXCEPT !.limit = 0]}
CacheBodies == {BodyFull(PhoneA, n, 9, 18) : n \in Nombres} \cup {NoBody}
CachePutBodies == {BodyNombre(n) : n \in Nombres} \cup {[NoBody EXCEPT !.horaHasta = 18]}
Ids == 0..(MaxServices - 1)

CacheNext ==
    /\ \/ \E q \in CacheQueries : ServGet(q)
       \/ \E b \in CacheBodies : ServPost(b)
       \/ \E id \in Ids, b \in CachePutBodies : ServPut(id, b)
       \/ \E id \in Ids : ServDelete(id)
       \/ ClockTick(MaxClock)
    /\ MadeWithin(MaxCacheDocs)'
    /\ UNCHANGED authVars

CacheSpec == SvcInit /\ [][CacheNext]_vars

\* POST, PUT and DELETE /serv with bodies that differ in their hours
Horas == {-1, HoraMin, 9, 18, HoraMax, 24}
HoraBodies ==
    {BodyFull(PhoneA, Ana, d, h) : d \in Horas, h \in Horas}
       \cup {[NoBody EXCEPT !.horaDesde = d] : d \in Horas}
       \cup {[NoBody EXCEPT !.horaHasta = h] : h \in Horas}
       \cup {[NoBody EXCEPT !.horaDesde = d, !.horaHasta = h] : d \in Horas, h \in Horas}

HoraNext ==
    /\ \/ \E b \in HoraBodies : ServPost(b)
       \/ \E id \in Ids, b \in HoraBodies : ServPut(id, b)
       \/ \E id \in Ids : ServDelete(id)
    /\ MadeWithin(MaxServices)'
    /\ UNCHANGED authVars

HoraSpec == SvcInit /\ [][HoraNext]_vars

\* the /profile router in front of a collection with a service of PhoneA and
\* one of PhoneB, under either default of strictQuery
ProfInit ==
    /\ Boot("development")
    /\ users = {}
    /\ jwtSecret
    /\ strictQuery \in BOOLEAN
    /\ services = {newService(0, BodyFull(PhoneA, Ana, 9, 18)),
                   newService(1, BodyFull(PhoneB, Bea, 9, 18))}
    /\ made = 2
    /\ cache = {}
    /\ clock = 0
    /\ out = NoOut
ProfBodies ==
    {BodyNombre(n) : n \in Nombres}
       \cup {[NoBody EXCEPT !.telefono = PhoneB], [NoBody EXCEPT !.horarios = <<"9", "-", "18">>],
             [NoBody EXCEPT !.horaDesde = 20]}

ProfNext ==
    /\ \/ \E h \in ProfHeaders : ProfileGet(h)
       \/ \E h \in ProfHeaders, b \in ProfBodies : ProfilePut(h, b)
       \/ \E h \in ProfHeaders : ProfileDelete(h)
       \/ \E h \in ProfHeaders : ProfileCleanup(h)
       \/ \E b \in {BodyFull(PhoneA, Bea, 9, 18), NoBody} : ServPost(b)
       \/ ClockTick(MaxClock)
    /\ MadeWithin(MaxServices + 1)'
    /\ UNCHANGED authVars

ProfSpec == ProfInit /\ [][ProfNext]_vars

\* =================================================================== claims
\* the account of a phone in the store before and after a step
Pending(tel, codigo, t) ==
    \E u \in users : /\ u.telefono = tel
                     /\ u.codigoVerificacion = codigo
                     /\ u.codigoExpira # NoDate
                     /\ u.codigoExpira >= t

ExpiredMatch(tel, codigo, t) ==
    \E u \in users : /\ u.telefono = tel
                     /\ u.codigoVerificacion = codigo
                     /\ u.codigoExpira # NoDate
                     /\ u.codigoExpira < t

\* slot s holds a verify request that takes its findOne step now
VerifyFinds(s) == reqs[s].route = "verify" /\ reqs[s].pc = "find" /\ reqs'[s].pc # "find"

\* slot s holds a verify request that takes its save step now
VerifySaves(s) == reqs[s].route = "verify" /\ reqs[s].pc = "save" /\ reqs'[s].pc # "save"

RegisterSaves(s) == reqs[s].route = "register" /\ reqs[s].pc = "save" /\ reqs'[s].pc # "save"

CleanupUpdates(s) == reqs[s].route = "cleanup" /\ reqs[s].pc = "update" /\ reqs'[s].pc # "update"

\* C1: with requests served one at a time and JWT_SECRET set, a verify of the
\* pending unexpired code of a phone passes the checks, marks the account
\* verified and returns a token; a later verify of the same code, with no
\* register for the phone in between, is answered 400 "Codigo incorrecto."
\* and never with success.
C1_VerifyOnceThenInvalid ==
    [][\A s \in Slots :
         /\ (VerifyFinds(s) /\ Pending(reqs[s].telefono, reqs[s].codigo, now))
               => reqs'[s].pc = "save"
         /\ (VerifySaves(s) /\ jwtSecret)
               => /\ res'.status = 200
                  /\ res'.token # NoToken
                  /\ \E u \in users' : u.telefono = reqs[s].telefono /\ u.verificado
         /\ (VerifyFinds(s) /\ lastOk[reqs[s].telefono] = reqs[s].codigo)
               => /\ res'.status = 400
                  /\ res'.error = "Codigo incorrecto."
                  /\ reqs'[s].pc = "idle"]_vars

\* a second verify of a code that was verified has just been refused
C1_Witness ==
    /\ res.route = "verify"
    /\ res.status = 400
    /\ res.error = "Codigo incorrecto."
    /\ res.telefono \in ValidPhones
    /\ lastOk[res.telefono] = res.codigoIn

\* C2: of the verify requests that read the code one register issued, at
\* most one returns success with a token, in every interleaving.
C2_CodeUsedAtMostOnce == \A p \in ValidPhones : okCount[p] <= 1

\* C3: a verify whose code equals the stored one while codigoExpira is before
\* the server time is answered 400 "El codigo ha expirado.", never success or
\* "Codigo incorrecto.", and the store is left as it was.
C3_ExpiredMatchingCode ==
    [][\A s \in Slots :
         (VerifyFinds(s) /\ ExpiredMatch(reqs[s].telefono, reqs[s].codigo, now))
            => /\ res'.status = 400
               /\ res'.error = "El codigo ha expirado."
               /\ res'.token = NoToken
               /\ reqs'[s].pc = "idle"
               /\ users' = users]_vars

\* an expired code that still matches has just been refused
C3_Witness ==
    /\ res.route = "verify"
    /\ res.error = "El codigo ha expirado."
    /\ ExpiredMatch(res.telefono, res.codigoIn, now)

\* the documents of a phone
Accounts(store, tel) == {u \in store : u.telefono = tel}

IsCodigo(c) == Len(c) = 6 /\ \A i \in 1..Len(c) : c[i] \in Digits

\* C4: a successful register of a valid phone leaves exactly one account of
\* the phone, holding the code generated by this call (six digits),
\* codigoExpira = call time + 10 minutes and verificado = false, whatever the
\* account was before.
C4_RegisterResets ==
    [][\A s \in Slots :
         (RegisterSaves(s) /\ res'.status = 200)
            => /\ res'.codigo = reqs[s].codigo
               /\ IsCodigo(res'.codigo)
               /\ Cardinality(Accounts(users', reqs[s].telefono)) = 1
               /\ \A u \in Accounts(users', reqs[s].telefono) :
                     /\ u.codigoVerificacion = res'.codigo
                     /\ u.codigoExpira = reqs[s].at + CodigoTtl
                     /\ ~u.verificado]_vars

\* C5: the save of a successful verify leaves the account with
\* verificado = true, codigoVerificacion = null and codigoExpira = null
\* together (one write), and a token is returned only by that step.
C5_VerifyPersistsTogether ==
    [][/\ \A s \in Slots :
            VerifySaves(s)
               => \E u \in users' : /\ u._id = reqs[s].orig._id
                                    /\ u.verificado
                                    /\ u.codigoVerificacion = NoStr
                                    /\ u.codigoExpira = NoDate
       /\ res'.token # NoToken
            => \E s \in Slots : VerifySaves(s) /\ res'.status = 200]_vars

\* C6: a verify answered with a validation error (400), "Usuario no
\* encontrado." (404), "Codigo incorrecto." or "El codigo ha expirado." (400)
\* leaves the users collection as it was: no account created, no field
\* changed.
C6_FailedVerifyKeepsStore ==
    [][(res'.route = "verify" /\ res'.status \in {400, 404}) => users' = users]_vars

\* a verify with a code other than the pending one has been refused and the
\* account still holds its code and expiry
C6_Witness ==
    /\ res.route = "verify"
    /\ res.status = 400
    /\ res.error = "Codigo incorrecto."
    /\ \E u \in Accounts(users, res.telefono) :
          /\ u.codigoVerificacion # NoStr
          /\ u.codigoVerificacion # res.codigoIn
          /\ u.codigoExpira # NoDate

\* the request of client ip that the limiter counts in this step
Arrives(ip) == hits'[ip] # hits[ip]

\* the request of client ip is handed to the routes: a handler starts
PassedOn(ip) ==
    \E s \in Slots : reqs[s].pc = "idle" /\ reqs'[s].pc # "idle" /\ reqs'[s].ip = ip

\* C7: counting a client's requests from the first one of its current
\* 60-minute window, the first 4 are handed to the /auth routes and the 5th
\* and later ones are answered 429 with {success: false, message}.
C7_FourPerWindow ==
    [][\A ip \in IPs :
         Arrives(ip)
            => /\ winSeen'[ip] <= 4 => PassedOn(ip) /\ res'.status # 429
               /\ winSeen'[ip] >= 5 => /\ ~PassedOn(ip)
                                       /\ res'.ip = ip
                                       /\ res'.status = 429
                                       /\ res'.success = "false"
                                       /\ res'.message # ""]_vars

\* a client's sixth request of a window has been rejected, after an earlier
\* window of the same client had ended
C7_Witness ==
    /\ res.status = 429
    /\ winSeen[res.ip] = 6
    /\ winFirst[res.ip] >= windowMs

\* C8: a request answered 429 by the limiter starts no handler: no code is
\* generated or returned, the users collection is not changed and no token
\* is returned.
C8_LimitedNeverReachesHandlers ==
    [][res'.status = 429
          => /\ reqs' = reqs
             /\ users' = users
             /\ res'.codigo = NoStr
             /\ res'.token = NoToken
             /\ res'.usuariosLimpiados = NoRes.usuariosLimpiados]_vars

\* a register has been rejected by the limiter while an account exists
C8_Witness ==
    /\ res.status = 429
    /\ res.route = "register"
    /\ users # {}

\* the accounts whose code expires at or after time a and before time b
ExpiringIn(a, b) ==
    {u \in users : u.codigoExpira # NoDate /\ u.codigoExpira >= a /\ u.codigoExpira < b}

\* C9 as stated: a cleanup that follows a cleanup, with no register or verify
\* between the two, reports zero accounts.
C9_SecondCleanupReportsZero ==
    [][\A s \in Slots :
         (CleanupUpdates(s) /\ sweptAt # NoDate) => res'.usuariosLimpiados = 0]_vars

\* C9: a cleanup that follows a cleanup, with no register or verify between
\* the two, reports the number of accounts whose code expired between the
\* two calls (codigoExpira at or after the time of the first, before the time
\* of the second): zero when the clock has not advanced, and not zero in
\* general.
C9_SecondCleanupReportsNewlyExpired ==
    [][\A s \in Slots :
         (CleanupUpdates(s) /\ sweptAt # NoDate)
            => /\ res'.usuariosLimpiados = Cardinality(ExpiringIn(sweptAt, reqs[s].at))
               /\ reqs[s].at <= sweptAt => res'.usuariosLimpiados = 0]_vars

\* the second of two consecutive cleanups has reported an account
C9_Witness ==
    /\ res.route = "cleanup"
    /\ res.status = 200
    /\ res.prior = "swept"
    /\ res.usuariosLimpiados >= 1

\* C10: a cleanup clears codigoVerificacion and codigoExpira of exactly the
\* accounts whose codigoExpira is before the time of the call and returns
\* their number; verificado, telefono and _id of every account stay, accounts
\* with an unexpired or absent code are left as they were, and no account is
\* removed or added.
C10_CleanupClearsExactlyExpired ==
    [][\A s \in Slots :
         CleanupUpdates(s)
            => LET expired == {u \in users : /\ u.codigoExpira # NoDate
                                             /\ u.codigoExpira < reqs[s].at}
               IN  /\ res'.usuariosLimpiados = Cardinality(expired)
                   /\ Cardinality(users') = Cardinality(users)
                   /\ {v._id : v \in users'} = {u._id : u \in users}
                   /\ \A u \in users :
                         \E v \in users' :
                            /\ v._id = u._id
                            /\ v.telefono = u.telefono
                            /\ v.verificado = u.verificado
                            /\ IF u \in expired
                               THEN v.codigoVerificacion = NoStr /\ v.codigoExpira = NoDate
                               ELSE v = u]_vars

\* a cleanup has cleared one account and left another with its unexpired code
C10_Witness ==
    /\ res.route = "cleanup"
    /\ res.usuariosLimpiados = 1
    /\ Cardinality(users) = 2
    /\ \E u \in users : u.codigoVerificacion # NoStr /\ u.codigoExpira >= res.at
    /\ \E u \in users : u.codigoVerificacion = NoStr /\ u.codigoExpira = NoDate /\ ~u.verificado

\* C11: in every state of the users collection, each account has
\* codigoVerificacion and codigoExpira both set or both null.
C11_CodeAndExpiryTogether ==
    \A u \in users : (u.codigoVerificacion = NoStr) <=> (u.codigoExpira = NoDate)

\* a verify request for the phone is between its arrival and its response
VerifyInProgress(tel) ==
    \E s \in Slots : reqs[s].route = "verify" /\ reqs[s].pc # "idle" /\ reqs[s].telefono = tel

\* C12: while no verify request is in progress for a phone, its account is
\* never verificado = true with a codigoVerificacion set, in every
\* interleaving of register and verify requests.
C12_VerifiedHasNoCode ==
    \A u \in users :
       ~VerifyInProgress(u.telefono) => ~(u.verificado /\ u.codigoVerificacion # NoStr)

\* C13: no two accounts have the same telefono, in every state, two
\* concurrent registers of an unknown phone included: both find no account,
\* both insert, and the second insert is refused by the unique index.
C13_OneAccountPerPhone ==
    \A u, v \in users : u.telefono = v.telefono => u = v

\* a register that found no account has been refused at its insert, the
\* account of the phone having been created meanwhile
C13_Witness ==
    /\ res.route = "register"
    /\ res.status = 500
    /\ Cardinality(Accounts(users, res.telefono)) = 1

\* the phone inputs that match ^\+\d{8,15}$: '+' and 8 digits, '+' and 15
\* digits; the others lack the '+', have 7 or 16 digits, hold a letter or
\* are missing
MatchingPhones == {PhoneA, PhoneB}

\* C14: a register is taken on (its handler goes on to the store) only when
\* its phone matches ^\+\d{8,15}$, and is answered 400 only when it does not;
\* the 400 answer leaves the users collection as it was.
C14_RegisterPhonePattern ==
    [][/\ \A s \in Slots :
            (reqs[s].pc = "idle" /\ reqs'[s].pc = "find" /\ reqs'[s].route = "register")
               => reqs'[s].telefono \in MatchingPhones
       /\ (res'.route = "register" /\ res'.status = 400)
            => /\ res'.telefono \notin MatchingPhones
               /\ users' = users
               /\ reqs' = reqs]_vars

\* a register of '+' and seven digits has been answered 400 while an account
\* exists
C14_Witness ==
    /\ res.route = "register"
    /\ res.status = 400
    /\ res.telefono = PhoneShort
    /\ users # {}

\* the number a decimal string denotes
DigitVal(ch) == CHOOSE d \in 0..9 : DigitChar(d) = ch

RECURSIVE toNumber(_)
toNumber(c) ==
    IF Len(c) = 0 THEN 0
    ELSE 10 * toNumber(SubSeq(c, 1, Len(c) - 1)) + DigitVal(c[Len(c)])

\* some value of floor(Math.random() * 900000) makes the generator return c
Producible(c) ==
    LET f == toNumber(c) - CodigoBase
    IN  f \in Floors /\ codigoAleatorio(f) = c

\* six-character decimal strings: the least, one with a leading zero, the
\* least without one, the greatest
CodigoZeros == <<"0", "0", "0", "0", "0", "0">>
CodigoLeadingZero == <<"0", "1", "2", "3", "4", "5">>
CodigoNines == <<"9", "9", "9", "9", "9", "9">>
SixDigitProbes == {CodigoZeros, CodigoLeadingZero, codigoAleatorio(0), CodigoNines}

\* C15 as stated: the generator can produce every six-character decimal
\* string from 000000 to 999999, those with leading zeros included, and every
\* code it produces has six characters.
C15_AllSixDigitStrings ==
    /\ \A c \in SixDigitProbes : Producible(c)
    /\ \A s \in Slots : reqs[s].route = "register" => Len(reqs[s].codigo) = 6

\* the generator at the least and the greatest floor, and on the probes
GeneratorRange ==
    /\ \A c \in SixDigitProbes : Producible(c) <=> c[1] # "0"
    /\ \A f \in RandomFloors :
          LET c == codigoAleatorio(f)
          IN  IsCodigo(c) /\ c[1] # "0" /\ toNumber(c) = CodigoBase + f

\* C15: the codes the generator produces are the decimal strings of the
\* integers 100000 to 999999: six characters, all digits, the first one never
\* "0" (no string with a leading zero is produced); so are the codes of the
\* registers in progress and the code a register returns.
C15_SixDigitsNoLeadingZero ==
    /\ GeneratorRange
    /\ \A s \in Slots :
          reqs[s].route = "register"
             => IsCodigo(reqs[s].codigo) /\ Producible(reqs[s].codigo)
    /\ (res.route = "register" /\ res.status = 200)
          => IsCodigo(res.codigo) /\ Producible(res.codigo)

\* a register has returned the greatest code, 999999
C15_Witness ==
    /\ res.route = "register"
    /\ res.status = 200
    /\ res.codigo = CodigoNines

\* C16: a token is returned only by the save step of a verify whose request
\* found an account holding its code, unexpired; its payload carries that
\* account's _id and telefono, verificado = true and role "user"; register
\* and cleanup responses carry no token.
C16_TokenOnlyFromVerify ==
    [][res'.token # NoToken
          => /\ res'.route = "verify"
             /\ \E s \in Slots :
                   /\ VerifySaves(s)
                   /\ reqs[s].orig._id # NoId
                   /\ reqs[s].orig.telefono = reqs[s].telefono
                   /\ reqs[s].orig.codigoVerificacion = reqs[s].codigo
                   /\ reqs[s].orig.codigoExpira # NoDate
                   /\ reqs[s].orig.codigoExpira >= reqs[s].at
                   /\ res'.token.userId = reqs[s].orig._id
                   /\ res'.token.telefono = reqs[s].telefono
                   /\ \E u \in users' : u._id = res'.token.userId
                                          /\ u.telefono = res'.token.telefono
             /\ res'.token.verificado = TRUE
             /\ res'.token.role = "user"]_vars

\* a verify has returned a token naming an account of the store
C16_Witness ==
    /\ res.route = "verify"
    /\ res.status = 200
    /\ res.token.role = "user"
    /\ res.token.verificado
    /\ \E u \in users : u._id = res.token.userId /\ u.telefono = res.token.telefono

\* the headers that start with "Bearer " and whose second word is the valid
\* token
PassingHeaders == {<<"Bearer", "jwt.ok">>, <<"Bearer", "jwt.ok", "extra">>}

\* C17: GET /privado reaches its handler (200, usuario = the token's decoded
\* payload) only with a header that starts with "Bearer " and whose token
\* verifies against JWT_SECRET; a missing header, another scheme, or a token
\* that is malformed, forged or expired is answered 401 and carries no
\* usuario.
C17_BearerOnly ==
    [][res'.route = "privado"
          => IF res'.header \in PassingHeaders /\ jwtSecret
             THEN /\ res'.status = 200
                  /\ res'.mensaje = "Accediste a una ruta privada con exito."
                  /\ res'.usuario.userId = 0
                  /\ res'.usuario.telefono = PhoneA
                  /\ res'.usuario.verificado
                  /\ res'.usuario.role = "user"
             ELSE /\ res'.status = 401
                  /\ res'.error # ""
                  /\ res'.mensaje = ""
                  /\ res'.usuario = NoDecoded]_vars

\* the protected handler has answered a request with a valid Bearer token
C17_Witness ==
    /\ res.route = "privado"
    /\ res.status = 200
    /\ res.header = <<"Bearer", "jwt.ok">>
    /\ res.usuario.telefono = PhoneA

\* C18: in production no successful register response carries the code.
C18_NoCodeInProduction ==
    (res.route = "register" /\ res.status = 200 /\ nodeEnv = "production")
       => res.codigo = NoStr

\* C19: a register that has persisted its code hands it to the SMS sender,
\* and answers 200 whether the delivery succeeds or not.
C19_HandsCodeToSender ==
    [][\A s \in Slots :
         (RegisterSaves(s) /\ users' # users)
            => /\ [to |-> reqs[s].telefono, codigo |-> reqs[s].codigo] \in sent'
               /\ res'.status = 200]_vars

\* C20: a request to /serv, /clic, /privado or / is never answered 429 and
\* leaves every client's /auth counter as it was.
C20_LimiterOnlyOnAuth ==
    [][res'.route \in {"serv", "clic", "privado", "root"}
          => /\ res'.status # 429
             /\ hits' = hits
             /\ winSeen' = winSeen]_vars

\* a client over its /auth limit has been served on /serv
C20_Witness ==
    /\ res.route = "serv"
    /\ res.status = 200
    /\ hits[res.ip].totalHits > 4
    /\ hits[res.ip].resetTime > now

\* along the recorded requests of every client, more than n of them in a row
\* take at least (strict = FALSE) or more than (strict = TRUE) one window
Spread(n, strict) ==
    \A ip \in IPs : \A i, j \in DOMAIN passedAt[ip] :
        j - i + 1 > n
           => IF strict THEN passedAt[ip][j] - passedAt[ip][i] > windowMs
                        ELSE passedAt[ip][j] - passedAt[ip][i] >= windowMs

\* client ip has had 8 requests in a row let through from the k-th recorded
\* one on, 4 in one window and 4 at the instant that window ended, which is
\* the earliest the next window can open
Straddles(ip, k) ==
    /\ k + 2 * RateMax - 1 \in DOMAIN passedAt[ip]
    /\ \A i \in (k + RateMax)..(k + 2 * RateMax - 1) :
          passedAt[ip][i] = passedAt[ip][k] + windowMs

AuthRoutes == {"register", "verify", "cleanup"}

\* a request of client ip to an /auth route is answered without a handler step
AnsweredAtOnce(ip) ==
    /\ res'.ip = ip
    /\ res'.route \in AuthRoutes
    /\ res'.status \in {400, 429}
    /\ reqs' = reqs

\* a verify of client ip arrives with the code pending for its phone
RightVerifyArrives(ip) ==
    \E s \in Slots, u \in users :
        /\ u.codigoVerificacion # NoStr
        /\ ~codigoVencido(u, now)
        /\ VerifyArrive(s, ip, u.telefono, u.codigoVerificacion)

\* C30: every request of a client to /auth/register, /auth/verify or
\* /auth/cleanup, rejected by validation or not, adds one to the same
\* counter of that client, so a verify with the right code that arrives after
\* 4 requests of its client in the same window is answered 429 and changes
\* nothing.
C30_OneCounterForAllAuthRoutes ==
    [][\A ip \in IPs :
         /\ (AnsweredAtOnce(ip) \/ PassedOn(ip))
               => /\ winSeen'[ip] = (IF now >= winFirst[ip] + windowMs THEN 0 ELSE winSeen[ip]) + 1
                  /\ hits'[ip].totalHits = winSeen'[ip]
         /\ (RightVerifyArrives(ip) /\ winSeen[ip] >= RateMax /\ now < winFirst[ip] + windowMs)
               => /\ res'.status = 429
                  /\ res'.token = NoToken
                  /\ users' = users
                  /\ reqs' = reqs]_vars

\* a verify, the fifth request of its client in the window, has been answered
\* 429 while the code of an earlier register is pending and not expired
C30_Witness ==
    /\ res.status = 429
    /\ res.route = "verify"
    /\ winSeen[res.ip] = RateMax + 1
    /\ \E u \in users : u.codigoVerificacion # NoStr /\ ~codigoVencido(u, now) /\ ~u.verificado

\* the account of a phone is marked verified and holds no code
VerifiedAndCleared(store, tel) ==
    /\ Accounts(store, tel) # {}
    /\ \A u \in Accounts(store, tel) :
          u.verificado /\ u.codigoVerificacion = NoStr /\ u.codigoExpira = NoDate

Cleared ==
    {u \in users : /\ u.codigoVerificacion # NoStr
                   /\ \E v \in users' : v._id = u._id /\ v.codigoVerificacion = NoStr}

\* C29: verify and cleanup draw the same line: a verify that finds its code
\* matching is refused as expired exactly when codigoExpira is before the
\* time of its check, so at now = codigoExpira it is accepted; a cleanup
\* clears exactly the codes whose codigoExpira is before the time it read,
\* so not one with codigoExpira equal to it; and every code a cleanup clears
\* is one a verify would refuse as expired at that moment.
C29_SameExpiryBoundary ==
    [][\A s \in Slots :
         /\ VerifyFinds(s)
               => \A u \in Accounts(users, reqs[s].telefono) :
                     (u.codigoVerificacion = reqs[s].codigo /\ u.codigoExpira # NoDate)
                        => /\ (u.codigoExpira < now) <=> (res'.error = "El codigo ha expirado.")
                           /\ (u.codigoExpira >= now) <=> (reqs'[s].pc = "save")
         /\ CleanupUpdates(s)
               => /\ \A u \in users :
                        (u.codigoVerificacion # NoStr /\ u.codigoExpira # NoDate)
                           => (u \in Cleared <=> u.codigoExpira < reqs[s].at)
                  /\ \A u \in Cleared : codigoVencido(u, now)]_vars

\* at the instant a code expires, a verify of it has passed the checks and a
\* cleanup that read the same instant has left the code in place
C29_Witness ==
    /\ res.route = "cleanup"
    /\ res.status = 200
    /\ res.usuariosLimpiados = 0
    /\ res.at = now
    /\ \E s \in Slots, u \in users :
          /\ u.codigoVerificacion # NoStr
          /\ u.codigoExpira = now
          /\ reqs[s].route = "verify"
          /\ reqs[s].pc = "save"
          /\ reqs[s].at = now
          /\ reqs[s].orig = u

\* slot s holds a register of an existing phone that saves now, right after
\* another register of the phone, issued a different code, was saved and
\* answered 200: the two had both read the account before either saved
SecondOfTwoRegisters(s) ==
    /\ RegisterSaves(s)
    /\ ~reqs[s].isNew
    /\ res.route = "register"
    /\ res.status = 200
    /\ res.prior # "absent"
    /\ res.telefono = reqs[s].telefono
    /\ res.codigo # reqs[s].codigo

\* C25: when two overlapping registers of an existing phone have both been
\* answered 200, the account holds the code of one of them with the expiry
\* that call computed, and the code returned by the other does not match it.
C25_LostUpdateKeepsOnePair ==
    [][\A s \in Slots :
         SecondOfTwoRegisters(s)
            => /\ res'.status = 200
               /\ \A u \in Accounts(users', reqs[s].telefono) :
                    \/ /\ u.codigoVerificacion = reqs[s].codigo
                       /\ u.codigoExpira = reqs[s].codigoExpira
                       /\ codigoIncorrecto(u, res.codigo)
                    \/ /\ u.codigoVerificacion = res.codigo
                       /\ u.codigoExpira = codigoExpiraDe(res.at)
                       /\ codigoIncorrecto(u, reqs[s].codigo)]_vars

\* the codes of a phone that a verify can still be answered 200 for: the
\* stored one while it has not expired, and those of the verify requests that
\* have passed the checks and are about to save
Redeemable(tel) ==
    {u.codigoVerificacion : u \in {v \in Accounts(users, tel) :
                                     v.codigoVerificacion # NoStr /\ ~codigoVencido(v, now)}}
       \cup {reqs[s].codigo : s \in {t \in Slots : /\ reqs[t].route = "verify"
                                                   /\ reqs[t].pc = "save"
                                                   /\ reqs[t].telefono = tel}}

\* C27: the code a register returns replaces the one stored for the phone:
\* from then on a verify of another code is answered 400 "Codigo
\* incorrecto." and a verify of the returned code before its expiry passes
\* the checks; and at no time can more than one code of a phone lead to a
\* successful verify.
C27_NewCodeSupersedes ==
    /\ [][\A s \in Slots :
            /\ (RegisterSaves(s) /\ res'.status = 200)
                  => \A u \in Accounts(users', reqs[s].telefono) :
                        /\ u.codigoVerificacion = res'.codigo
                        /\ u.codigoExpira = reqs[s].codigoExpira
            /\ VerifyFinds(s)
                  => \A u \in Accounts(users, reqs[s].telefono) :
                        /\ u.codigoVerificacion # reqs[s].codigo
                              => res'.status = 400 /\ res'.error = "Codigo incorrecto."
                        /\ (u.codigoVerificacion = reqs[s].codigo /\ ~codigoVencido(u, now))
                              => reqs'[s].pc = "save"]_vars
    /\ [](\A tel \in ValidPhones : Cardinality(Redeemable(tel)) <= 1)

\* the entries of the cache under the key of query q that were set no more
\* than 60 seconds ago
Live(q) == {e \in cache : e.key = cacheKey(q) /\ e.t - stdTTL <= clock /\ clock <= e.t}

\* C21: a GET /serv whose key (filter, limit, skip, sort) has an entry set no
\* more than 60 seconds before is answered with the value of that entry,
\* without a query, and leaves the cache alone; any other valid GET /serv is
\* answered with the result of the query on the store, set in the cache for
\* 60 seconds; POST, PUT and DELETE /serv leave the cache as it is.
C21_ListCachedForSixtySeconds ==
    [][/\ (out'.route = "GET /serv" /\ out'.status = 200)
            => IF Live(out'.query) # {}
               THEN /\ out'.source = "cache"
                    /\ \E e \in Live(out'.query) : out'.body = e.v
                    /\ cache' = cache
               ELSE /\ out'.source = "store"
                    /\ out'.body = find(out'.query)
                    /\ [key |-> cacheKey(out'.query), v |-> find(out'.query),
                        t |-> clock + stdTTL] \in cache'
       /\ out'.route \in {"POST /serv", "PUT /serv", "DELETE /serv"} => cache' = cache]_vars

\* a GET /serv has been answered from an entry set 60 seconds before with a
\* list that is no longer the result of its query on the store
C21_Witness ==
    /\ out.route = "GET /serv"
    /\ out.source = "cache"
    /\ out.body # find(out.query)
    /\ \E e \in Live(out.query) : e.t = clock

\* C26: every Service in the store has 0 <= horaDesde < horaHasta <= 23,
\* whatever POST /serv and PUT /serv/:id requests were made, a PUT of
\* horaDesde alone or of horaHasta alone included.
C26_HoursOrdered ==
    \A d \in services : /\ HoraMin <= d.horaDesde
                         /\ d.horaDesde < d.horaHasta
                         /\ d.horaHasta <= HoraMax

\* the service of a phone carries the mark of a soft delete
Marked(d) == d.deleted = "true" /\ d.deletedAt # NoDate

ProfileRoutes == {"GET /profile", "PUT /profile", "DELETE /profile"}

\* C22: a DELETE /profile answered 200 leaves every document in the store and
\* the caller's one marked deleted = true with a deletedAt time; the next GET,
\* PUT or DELETE /profile of that token is answered 404 'Perfil no
\* encontrado.'; and while no Service of the caller is marked, a GET /profile
\* of a caller who has a Service is answered 200 with a Service of theirs.
C22_SoftDelete ==
    [][/\ (out'.route = "DELETE /profile" /\ out'.status = 200)
            => /\ Cardinality(services') = Cardinality(services)
               /\ \E d \in services' : d.telefono = out'.telefono /\ Marked(d)
       /\ (/\ out.route = "DELETE /profile" /\ out.status = 200
           /\ out'.route \in ProfileRoutes
           /\ out'.telefono = out.telefono
           /\ out'.status # 400)
            => out'.status = 404 /\ out'.error = "Perfil no encontrado."
       /\ (/\ out'.route = "GET /profile"
           /\ out'.telefono # NoStr
           /\ \E d \in services : d.telefono = out'.telefono
           /\ \A d \in services : d.telefono = out'.telefono => ~Marked(d))
            => /\ out'.status = 200
               /\ \E d \in services : d.telefono = out'.telefono /\ out'.body = <<d>>]_vars

\* the documents a step has changed or removed, as they were before it
Touched == {d \in services : d \notin services'}

\* C23: a PUT /profile or DELETE /profile changes no Service but one whose
\* telefono is the telefono of the caller's token, removes and adds none, and
\* leaves the telefono of every Service as it was; a PUT /profile of a caller
\* with a valid token whose body has a telefono is answered 400 and changes
\* nothing.
C23_OwnProfileOnly ==
    [][/\ out'.route \in {"PUT /profile", "DELETE /profile"}
            => /\ \A d \in Touched : d.telefono = out'.telefono
               /\ \A d \in services : \E e \in services' :
                      e._id = d._id /\ e.telefono = d.telefono
               /\ Cardinality(services') = Cardinality(services)
       /\ (/\ out'.route = "PUT /profile"
           /\ out'.status # 401
           /\ out'.reqBody.telefono # NoStr)
            => out'.status = 400 /\ services' = services]_vars

\* a PUT /profile has changed the nombre of the caller's own Service while
\* the Service of another phone is in the store, untouched
C23_Witness ==
    /\ out.route = "PUT /profile"
    /\ out.status = 200
    /\ out.reqBody.nombre = Bea
    /\ \E d \in services : d.telefono = out.telefono /\ d.nombre = Bea /\ d._id = 0
    /\ \E d \in services : d.telefono # out.telefono /\ d._id = 1

====
